---- MODULE Spec2Model ----
(***************************************************************************)
(* Model of the pet-adoption backend's authentication and registration     *)
(* core: JWTAuthentication (apps/users/authentication.py), the user store  *)
(* (apps/users/models.py), the shelter registration view                   *)
(* (apps/users/infrastructure/views/shelter.py) and the JWT settings       *)
(* (settings/environments/base.py).                                        *)
(***************************************************************************)
EXTENDS Integers, Sequences, FiniteSets, TLC

VARIABLES
    settings,   \* api_settings: AUTH_TOKEN_CLASSES, CHECK_REVOKE_TOKEN
    now,        \* the wall clock token expiry is compared with
    users,      \* table base_user: uuid -> [email, password, is_active, ...]
    shelters,   \* table shelter: base_user uuid -> [shelter_name]
    jwt,        \* table jwt: the issued token records
    blacklist,  \* table jwt_blacklist: jti of the blacklisted token records
    reqs,       \* in-flight registration POSTs: request -> [pc, body, response]
    result      \* outcome of the last operation, taken on the current store

vars == <<settings, now, users, shelters, jwt, blacklist, reqs, result>>

(***************************************************************************)
(* Bounds of the model.                                                    *)
(***************************************************************************)
MaxUsers == 2      \* uuids that can be handed out
MaxTokens == 2     \* tokens that can be issued
MaxPw == 1         \* password changes per user
MaxTime == 1       \* clock ticks
MaxReqs == 2       \* registration requests
MaxClasses == 2    \* length of AUTH_TOKEN_CLASSES

UUIDs == 1..MaxUsers
JTIs == 1..MaxTokens
Reqs == 1..MaxReqs

\* Python's None, as returned by dict.get for a missing key.
None == [py |-> "None"]

(***************************************************************************)
(* Settings (SIMPLE_JWT).                                                  *)
(***************************************************************************)
USER_ID_CLAIM == "user_uuid"
REVOKE_TOKEN_CLAIM == "hash_password"
TOKEN_TYPE_CLAIM == "token_type"
JTI_CLAIM == "jti"
\* ACCESS_TOKEN_LIFETIME, in clock ticks.
ACCESS_TOKEN_LIFETIME == 1

\* The token classes of rest_framework_simplejwt.tokens.
TokenClasses == {"AccessToken", "RefreshToken", "UntypedToken"}

\* AuthToken.token_type
TokenTypeOf(cls) ==
    CASE cls = "AccessToken" -> "access"
      [] cls = "RefreshToken" -> "refresh"
      [] cls = "UntypedToken" -> "untyped"

\* The value the repository configures.
RepoTokenClasses == <<"AccessToken">>

\* Duplicate-free sequences over S of length at most n.
RECURSIVE SeqsUpTo(_, _)
SeqsUpTo(S, n) ==
    IF n = 0 THEN {<<>>}
    ELSE LET shorter == SeqsUpTo(S, n - 1)
         IN  shorter \cup
             {Append(s, x) : s \in {q \in shorter : Len(q) = n - 1},
                             x \in S}

NoDup(s) == \A i, j \in 1..Len(s) : i # j => s[i] # s[j]

ClassConfigs == {s \in SeqsUpTo(TokenClasses, MaxClasses) : NoDup(s)}

(***************************************************************************)
(* Tokens.  A raw token is the encoded string: a payload (claim -> value,  *)
(* a claim may be missing) and whether its signature verifies under        *)
(* SIGNING_KEY.                                                            *)
(***************************************************************************)
Has(payload, claim) == claim \in DOMAIN payload

\* dict.get(claim): the value, or None when the key is missing.
Get(payload, claim) == IF Has(payload, claim) THEN payload[claim] ELSE None

\* get_md5_hash_password: a fingerprint of the stored password hash.
get_md5_hash_password(password) == [md5 |-> password]

\* Payload builder: the claims in `claims`, with the values given.
MkPayload(claims, type, exp, jti, uid, rev) ==
    [c \in claims |->
        CASE c = TOKEN_TYPE_CLAIM -> type
          [] c = "exp" -> exp
          [] c = JTI_CLAIM -> jti
          [] c = USER_ID_CLAIM -> uid
          [] c = REVOKE_TOKEN_CLAIM -> rev]

\* AuthToken(raw_token): Token.__init__ decodes and verifies the raw token
\* for one token class; a TokenError carries its message in args[0].
AuthToken(cls, raw, t) ==
    IF ~raw.sig THEN [ok |-> FALSE, error |-> "Token is invalid or expired"]
    ELSE IF ~Has(raw.payload, "exp") \/ raw.payload["exp"] <= t
    THEN [ok |-> FALSE, error |-> "Token is invalid or expired"]
    ELSE IF ~Has(raw.payload, JTI_CLAIM)
    THEN [ok |-> FALSE, error |-> "Token has no id"]
    ELSE IF cls = "UntypedToken"
    THEN [ok |-> TRUE, token |-> [cls |-> cls, payload |-> raw.payload]]
    ELSE IF ~Has(raw.payload, TOKEN_TYPE_CLAIM)
    THEN [ok |-> FALSE, error |-> "Token has no type"]
    ELSE IF raw.payload[TOKEN_TYPE_CLAIM] # TokenTypeOf(cls)
    THEN [ok |-> FALSE, error |-> "Token has wrong type"]
    ELSE [ok |-> TRUE, token |-> [cls |-> cls, payload |-> raw.payload]]

\* The loop of get_validated_token from class i on; `messages` are the
\* failures collected so far.  `attempted` lists the classes tried.
RECURSIVE TryTokenClasses(_, _, _, _, _)
TryTokenClasses(classes, i, raw, t, messages) ==
    IF i > Len(classes)
    THEN [kind |-> "InvalidToken", code |-> "authentication_failed",
          detail |-> messages, attempted |-> SubSeq(classes, 1, Len(classes))]
    ELSE LET r == AuthToken(classes[i], raw, t)
         IN  IF r.ok
             THEN [kind |-> "token", token |-> r.token,
                   attempted |-> SubSeq(classes, 1, i)]
             ELSE TryTokenClasses(classes, i + 1, raw, t,
                      Append(messages,
                             [token_type |-> TokenTypeOf(classes[i]),
                              message |-> r.error]))

\* A loop that keeps going after a class has accepted: the last wins.
RECURSIVE TryAllTokenClasses(_, _, _, _, _, _)
TryAllTokenClasses(classes, i, raw, t, messages, best) ==
    IF i > Len(classes)
    THEN IF best.kind = "token" THEN best
         ELSE [kind |-> "InvalidToken", code |-> "authentication_failed",
               detail |-> messages,
               attempted |-> SubSeq(classes, 1, Len(classes))]
    ELSE LET r == AuthToken(classes[i], raw, t)
         IN  IF r.ok
             THEN TryAllTokenClasses(classes, i + 1, raw, t, messages,
                      [kind |-> "token", token |-> r.token,
                       attempted |-> SubSeq(classes, 1, i)])
             ELSE TryAllTokenClasses(classes, i + 1, raw, t,
                      Append(messages,
                             [token_type |-> TokenTypeOf(classes[i]),
                              message |-> r.error]), best)

get_validated_token_last(cfg, raw, t) ==
    TryAllTokenClasses(cfg.AUTH_TOKEN_CLASSES, 1, raw, t, <<>>,
                       [kind |-> "none"])

\* A loop that stops at the first failure instead of collecting them all.
get_validated_token_first(cfg, raw, t) ==
    LET classes == cfg.AUTH_TOKEN_CLASSES
    IN  IF Len(classes) = 0
        THEN TryTokenClasses(classes, 1, raw, t, <<>>)
        ELSE LET r == AuthToken(classes[1], raw, t)
             IN  IF r.ok
                 THEN [kind |-> "token", token |-> r.token,
                       attempted |-> SubSeq(classes, 1, 1)]
                 ELSE [kind |-> "InvalidToken",
                       code |-> "authentication_failed",
                       detail |-> <<[token_type |-> TokenTypeOf(classes[1]),
                                     message |-> r.error]>>,
                       attempted |-> SubSeq(classes, 1, 1)]

\* JWTAuthentication.get_validated_token
get_validated_token(cfg, raw, t) ==
    TryTokenClasses(cfg.AUTH_TOKEN_CLASSES, 1, raw, t, <<>>)

(***************************************************************************)
(* The per-request gate: token validation and the permission-denial policy *)
(* of the view.                                                            *)
(***************************************************************************)
\* The raw tokens a client can present to get_validated_token.
GateClaimSets == {cs \cup {USER_ID_CLAIM} :
                      cs \in SUBSET {TOKEN_TYPE_CLAIM, "exp", JTI_CLAIM}}

GateRawTokens ==
    {[sig |-> s, payload |-> MkPayload(cs, ty, e, 1, 1, None)] :
        s \in BOOLEAN, cs \in GateClaimSets,
        ty \in {"access", "refresh", "sliding"}, e \in 1..(MaxTime + 1)}

\* DEFAULT_AUTHENTICATION_CLASSES: the authenticators a request can carry.
Authenticators == {"JWTAuthentication", "SessionAuthentication"}

AuthenticatorLists == {s \in SeqsUpTo(Authenticators, 2) : NoDup(s)}

\* request.successful_authenticator: None, or the instance that succeeded.
SuccessfulOf(auths) == {None} \cup {[cls |-> auths[i]] : i \in 1..Len(auths)}

\* Python truthiness of a list / of an object-or-None.
Truthy(x) == x # None /\ x # <<>>

\* A policy that reports NotAuthenticated whenever nothing succeeded.
permission_denied_nolist(authenticators, successful_authenticator) ==
    IF ~Truthy(successful_authenticator)
    THEN "NotAuthenticated"
    ELSE "PermissionDenied"

\* ShelterAPIView.permission_denied: the exception it raises.
permission_denied(authenticators, successful_authenticator) ==
    IF Len(authenticators) > 0 /\ ~Truthy(successful_authenticator)
    THEN "NotAuthenticated"
    ELSE "PermissionDenied"

NoResult == [op |-> "none"]

GateUnchanged == UNCHANGED <<settings, users, shelters, jwt, blacklist, reqs>>

\* A request presents raw token `raw`: get_validated_token runs on it.
ValidateToken(raw) ==
    /\ result' = [op |-> "get_validated_token", raw |-> raw,
                  out |-> get_validated_token(settings, raw, now)]
    /\ UNCHANGED now
    /\ GateUnchanged

\* Access was denied to a request with these authenticators.
PermissionDenied(auths, succ) ==
    /\ result' = [op |-> "permission_denied", authenticators |-> auths,
                  successful_authenticator |-> succ,
                  raised |-> permission_denied(auths, succ)]
    /\ UNCHANGED now
    /\ GateUnchanged

\* Time passes.
Tick ==
    /\ now < MaxTime
    /\ now' = now + 1
    /\ result' = NoResult
    /\ GateUnchanged

EmptyTable == [k \in {} |-> None]

InitStore ==
    /\ now = 0
    /\ users = EmptyTable
    /\ shelters = EmptyTable
    /\ jwt = {}
    /\ blacklist = {}
    /\ reqs = [r \in Reqs |-> [pc |-> "idle"]]
    /\ result = NoResult

InitGate ==
    /\ settings \in [AUTH_TOKEN_CLASSES : ClassConfigs,
                     CHECK_REVOKE_TOKEN : {FALSE}]
    /\ InitStore

NextGate ==
    \/ \E raw \in GateRawTokens : ValidateToken(raw)
    \/ \E auths \in AuthenticatorLists :
           \E succ \in SuccessfulOf(auths) : PermissionDenied(auths, succ)
    \/ Tick

SpecGate == InitGate /\ [][NextGate]_vars

(***************************************************************************)
(* Claims about the gate.                                                  *)
(***************************************************************************)
ValidatedOut == result.op = "get_validated_token"

\* Indices of the configured classes that accept the presented token.
Accepting(raw) ==
    {i \in 1..Len(settings.AUTH_TOKEN_CLASSES) :
        AuthToken(settings.AUTH_TOKEN_CLASSES[i], raw, now).ok}

\* C1: get_validated_token tries the configured classes in declared order
\* and returns the token built by the first class accepting the raw token:
\* the winner is the least accepting index, exactly the classes up to the
\* winner were attempted, and a token is returned whenever a class accepts.
C1_FirstAcceptingClassWins ==
    ValidatedOut =>
        LET classes == settings.AUTH_TOKEN_CLASSES
            acc == Accepting(result.raw)
        IN  /\ (acc # {}) <=> (result.out.kind = "token")
            /\ acc # {} =>
                 LET w == CHOOSE i \in acc : \A j \in acc : i <= j
                 IN  /\ result.out.token =
                            AuthToken(classes[w], result.raw, now).token
                     /\ result.out.token.cls = classes[w]
                     /\ result.out.attempted = SubSeq(classes, 1, w)

\* C1 witness: the second configured class accepted a token the first one
\* had rejected.
C1_Witness ==
    /\ ValidatedOut
    /\ result.out.kind = "token"
    /\ Len(result.out.attempted) = 2
    /\ result.out.token.cls = settings.AUTH_TOKEN_CLASSES[2]
    /\ 1 \notin Accepting(result.raw)

\* C2: when every configured class rejects the raw token the call fails
\* with InvalidToken whose detail holds one entry per configured class, in
\* configuration order, each with the class's token_type and its message.
C2_AllFailuresCollected ==
    (ValidatedOut /\ Accepting(result.raw) = {}) =>
        LET classes == settings.AUTH_TOKEN_CLASSES
        IN  /\ result.out.kind = "InvalidToken"
            /\ Len(result.out.detail) = Len(classes)
            /\ \A i \in 1..Len(classes) :
                 result.out.detail[i] =
                     [token_type |-> TokenTypeOf(classes[i]),
                      message |-> AuthToken(classes[i], result.raw, now).error]

\* C2 witness: two configured classes both rejected an expired token.
C2_Witness ==
    /\ ValidatedOut
    /\ result.out.kind = "InvalidToken"
    /\ Len(result.out.detail) = 2
    /\ result.raw.sig
    /\ Has(result.raw.payload, "exp")
    /\ result.raw.payload["exp"] <= now

\* C7: permission_denied raises NotAuthenticated exactly when the request
\* has at least one authenticator and none succeeded, and PermissionDenied
\* in every other case.
C7_PermissionDeniedPolicy ==
    result.op = "permission_denied" =>
        /\ result.raised \in {"NotAuthenticated", "PermissionDenied"}
        /\ (result.raised = "NotAuthenticated") <=>
               (/\ result.authenticators # <<>>
                /\ result.successful_authenticator = None)

\* C7 witness: denial with no authenticators configured, as for POST.
C7_Witness ==
    /\ result.op = "permission_denied"
    /\ result.authenticators = <<>>
    /\ result.raised = "PermissionDenied"

(***************************************************************************)
(* The user store (apps/users/models.py).                                  *)
(***************************************************************************)
\* An email address is its local part and its domain part.
Emails == {[local |-> "a", domain |-> "x"],
           [local |-> "A", domain |-> "x"],
           [local |-> "a", domain |-> "X"]}

Lower(s) == CASE s = "A" -> "a" [] s = "X" -> "x" [] OTHER -> s

\* BaseUserManager.normalize_email lowercases the domain part only.
normalize_email(email) ==
    [local |-> email.local, domain |-> Lower(email.domain)]

\* Insert or replace row k of a table.
Put(table, k, row) ==
    [x \in DOMAIN table \cup {k} |-> IF x = k THEN row ELSE table[x]]

\* A store without the uniqueness constraint on email.
EmailNeverTaken(table, email) == FALSE

\* unique=True on BaseUser.email
EmailTaken(table, email) == \E u \in DOMAIN table : table[u].email = email

\* The row of a new BaseUser: last_login is null until a login sets it.
BaseUserRow(email, password, extra_fields) ==
    [email |-> email, password |-> password,
     is_active |-> extra_fields.is_active,
     is_staff |-> extra_fields.is_staff,
     is_superuser |-> extra_fields.is_superuser,
     last_login |-> None]

\* CustomUserManager._create_base_user: normalize_email, set_password,
\* save; the store's IntegrityError when the normalized email is in use.
_create_base_user(table, uuid, email, password, extra_fields) ==
    IF EmailTaken(table, normalize_email(email))
    THEN [ok |-> FALSE, error |-> "IntegrityError", field |-> "email",
          table |-> table]
    ELSE [ok |-> TRUE,
          table |-> Put(table, uuid,
                        BaseUserRow(normalize_email(email), password,
                                    extra_fields))]

\* A manager that stores the row under another key than the one asked for.
create_base_user_otherkey(table, uuid, email, password, is_active) ==
    _create_base_user(table, CHOOSE k \in UUIDs : k # uuid, email, password,
                      [is_staff |-> FALSE, is_superuser |-> FALSE,
                       is_active |-> is_active])

\* CustomUserManager.create_base_user: is_staff and is_superuser default
\* to False.
create_base_user(table, uuid, email, password, is_active) ==
    _create_base_user(table, uuid, email, password,
                      [is_staff |-> FALSE, is_superuser |-> FALSE,
                       is_active |-> is_active])

\* CustomUserManager.create_superuser: the three flags must be True.
create_superuser(table, uuid, email, password, extra_fields) ==
    IF extra_fields.is_staff # TRUE
    THEN [ok |-> FALSE, error |-> "ValueError", field |-> "is_staff",
          table |-> table]
    ELSE IF extra_fields.is_superuser # TRUE
    THEN [ok |-> FALSE, error |-> "ValueError", field |-> "is_superuser",
          table |-> table]
    ELSE IF extra_fields.is_active # TRUE
    THEN [ok |-> FALSE, error |-> "ValueError", field |-> "is_active",
          table |-> table]
    ELSE _create_base_user(table, uuid, email, password, extra_fields)

(***************************************************************************)
(* Identity resolution.  `lookups` counts the queries on base_user.        *)
(***************************************************************************)
AuthFailed(code, detail) ==
    [kind |-> "AuthenticationFailed", code |-> code, detail |-> detail,
     lookups |-> 1]

NoIdentity ==
    [kind |-> "InvalidToken", lookups |-> 0,
     detail |-> "Token contained no recognizable user identification"]

PasswordChanged ==
    AuthFailed("password_changed", "The user's password has been changed.")

\* get_user without the revocation-claim check.
get_user_norevoke(cfg, token, table) ==
    IF ~Has(token.payload, USER_ID_CLAIM) THEN NoIdentity
    ELSE LET user_id == token.payload[USER_ID_CLAIM]
         IN  IF user_id \notin DOMAIN table
             THEN AuthFailed("user_not_found", "User not found")
             ELSE IF ~table[user_id].is_active
             THEN AuthFailed("user_inactive", "User is inactive")
             ELSE [kind |-> "user", uuid |-> user_id, user |-> table[user_id],
                   lookups |-> 1]

\* get_user that reports a missing row with the code of an inactive user.
get_user_notfound_as_inactive(cfg, token, table) ==
    IF ~Has(token.payload, USER_ID_CLAIM) THEN NoIdentity
    ELSE LET user_id == token.payload[USER_ID_CLAIM]
         IN  IF user_id \notin DOMAIN table
             THEN AuthFailed("user_inactive", "User is inactive")
             ELSE IF ~table[user_id].is_active
             THEN AuthFailed("user_inactive", "User is inactive")
             ELSE IF /\ cfg.CHECK_REVOKE_TOKEN
                     /\ Get(token.payload, REVOKE_TOKEN_CLAIM) #
                            get_md5_hash_password(table[user_id].password)
             THEN PasswordChanged
             ELSE [kind |-> "user", uuid |-> user_id, user |-> table[user_id],
                   lookups |-> 1]

\* get_user without the is_active check.
get_user_noactive(cfg, token, table) ==
    IF ~Has(token.payload, USER_ID_CLAIM) THEN NoIdentity
    ELSE LET user_id == token.payload[USER_ID_CLAIM]
         IN  IF user_id \notin DOMAIN table
             THEN AuthFailed("user_not_found", "User not found")
             ELSE IF /\ cfg.CHECK_REVOKE_TOKEN
                     /\ Get(token.payload, REVOKE_TOKEN_CLAIM) #
                            get_md5_hash_password(table[user_id].password)
             THEN PasswordChanged
             ELSE [kind |-> "user", uuid |-> user_id, user |-> table[user_id],
                   lookups |-> 1]

\* get_user that reads the claim with dict.get and queries with None.
get_user_lookupfirst(cfg, token, table) ==
    IF ~Has(token.payload, USER_ID_CLAIM)
    THEN AuthFailed("user_not_found", "User not found")
    ELSE LET user_id == token.payload[USER_ID_CLAIM]
         IN  IF user_id \notin DOMAIN table
             THEN AuthFailed("user_not_found", "User not found")
             ELSE IF ~table[user_id].is_active
             THEN AuthFailed("user_inactive", "User is inactive")
             ELSE IF /\ cfg.CHECK_REVOKE_TOKEN
                     /\ Get(token.payload, REVOKE_TOKEN_CLAIM) #
                            get_md5_hash_password(table[user_id].password)
             THEN PasswordChanged
             ELSE [kind |-> "user", uuid |-> user_id, user |-> table[user_id],
                   lookups |-> 1]

\* get_user with the revocation claim compared before is_active is read.
get_user_revokefirst(cfg, token, table) ==
    IF ~Has(token.payload, USER_ID_CLAIM) THEN NoIdentity
    ELSE LET user_id == token.payload[USER_ID_CLAIM]
         IN  IF user_id \notin DOMAIN table
             THEN AuthFailed("user_not_found", "User not found")
             ELSE LET user == table[user_id]
                  IN  IF /\ cfg.CHECK_REVOKE_TOKEN
                         /\ Get(token.payload, REVOKE_TOKEN_CLAIM) #
                                get_md5_hash_password(user.password)
                      THEN PasswordChanged
                      ELSE IF ~user.is_active
                      THEN AuthFailed("user_inactive", "User is inactive")
                      ELSE [kind |-> "user", uuid |-> user_id,
                            user |-> user, lookups |-> 1]

\* get_user comparing the revocation claim whatever the setting says.
get_user_alwaysrevoke(cfg, token, table) ==
    IF ~Has(token.payload, USER_ID_CLAIM) THEN NoIdentity
    ELSE LET user_id == token.payload[USER_ID_CLAIM]
         IN  IF user_id \notin DOMAIN table
             THEN AuthFailed("user_not_found", "User not found")
             ELSE LET user == table[user_id]
                  IN  IF ~user.is_active
                      THEN AuthFailed("user_inactive", "User is inactive")
                      ELSE IF Get(token.payload, REVOKE_TOKEN_CLAIM) #
                                  get_md5_hash_password(user.password)
                      THEN PasswordChanged
                      ELSE [kind |-> "user", uuid |-> user_id,
                            user |-> user, lookups |-> 1]

\* JWTAuthentication.get_user
get_user(cfg, token, table) ==
    IF ~Has(token.payload, USER_ID_CLAIM) THEN NoIdentity
    ELSE LET user_id == token.payload[USER_ID_CLAIM]
         IN  IF user_id \notin DOMAIN table
             THEN AuthFailed("user_not_found", "User not found")
             ELSE LET user == table[user_id]
                  IN  IF ~user.is_active
                      THEN AuthFailed("user_inactive", "User is inactive")
                      ELSE IF /\ cfg.CHECK_REVOKE_TOKEN
                              /\ Get(token.payload, REVOKE_TOKEN_CLAIM) #
                                     get_md5_hash_password(user.password)
                      THEN PasswordChanged
                      ELSE [kind |-> "user", uuid |-> user_id, user |-> user,
                            lookups |-> 1]

\* JWTAuthentication.authenticate on a raw bearer token: validation, then
\* identity resolution of the validated token.
authenticate(cfg, raw, t, table) ==
    LET v == get_validated_token(cfg, raw, t)
    IN  IF v.kind = "token" THEN get_user(cfg, v.token, table) ELSE v

\* The Authorization header of a request: None when absent, else the
\* scheme and the space-delimited values that follow it.
AUTH_HEADER_TYPES == {"Bearer"}

\* get_raw_token: None when the header is not of a configured type, an
\* error unless exactly one value follows the type.
get_raw_token(header) ==
    IF header.scheme \notin AUTH_HEADER_TYPES
    THEN [kind |-> "none"]
    ELSE IF Len(header.parts) # 1
    THEN [kind |-> "AuthenticationFailed",
          code |-> "bad_authorization_header"]
    ELSE [kind |-> "raw", raw |-> header.parts[1]]

Anonymous(steps) ==
    [outcome |-> "anonymous", steps |-> steps, user |-> None, auth |-> None]

Rejected(steps, error) ==
    [outcome |-> "error", steps |-> steps, error |-> error,
     user |-> None, auth |-> None]

\* An authenticator that resolves the identity whatever validation said.
authenticate_header_nocheck(cfg, header, t, table) ==
    IF header = None THEN Anonymous(<<>>)
    ELSE LET raw == get_raw_token(header)
         IN  IF raw.kind = "none" THEN Anonymous(<<>>)
             ELSE IF raw.kind # "raw" THEN Rejected(<<>>, raw)
             ELSE LET v == get_validated_token(cfg, raw.raw, t)
                      tok == [cls |-> "AccessToken",
                              payload |-> raw.raw.payload]
                      u == get_user(cfg, tok, table)
                  IN  IF u.kind # "user"
                      THEN Rejected(<<"get_validated_token", "get_user">>, u)
                      ELSE [outcome |-> "authenticated",
                            steps |-> <<"get_validated_token", "get_user">>,
                            user |-> u.uuid, auth |-> tok]

\* JWTAuthentication.authenticate(request): the steps run, and what the
\* request ends with: anonymous, an error, or (user, validated token).
authenticate_header(cfg, header, t, table) ==
    IF header = None THEN Anonymous(<<>>)
    ELSE LET raw == get_raw_token(header)
         IN  IF raw.kind = "none" THEN Anonymous(<<>>)
             ELSE IF raw.kind # "raw" THEN Rejected(<<>>, raw)
             ELSE LET v == get_validated_token(cfg, raw.raw, t)
                  IN  IF v.kind # "token"
                      THEN Rejected(<<"get_validated_token">>, v)
                      ELSE LET u == get_user(cfg, v.token, table)
                           IN  IF u.kind # "user"
                               THEN Rejected(<<"get_validated_token",
                                               "get_user">>, u)
                               ELSE [outcome |-> "authenticated",
                                     steps |-> <<"get_validated_token",
                                                 "get_user">>,
                                     user |-> u.uuid, auth |-> v.token]

(***************************************************************************)
(* The store and the authentication backend together.                      *)
(***************************************************************************)
\* A password hash is salted: every set_password gives a fresh value.
PasswordHash(uuid, n) == <<uuid, n>>

\* uuid4(): a key not in use.
FreshUUID(table) == Cardinality(DOMAIN table) + 1

StoreUnchanged == UNCHANGED <<settings, now, reqs>>

\* The records of the store, as one value.
Store ==
    [users |-> users, shelters |-> shelters, jwt |-> jwt,
     blacklist |-> blacklist]

\* The store after get_validated_token: AuthToken(raw_token) decodes the
\* token and runs no query.
get_validated_token_store(store) == store

\* A get_user that stamps last_login on the user it resolves.
get_user_store_lastlogin(store, resolved, t) ==
    [store EXCEPT !.users =
        [u \in DOMAIN store.users |->
            IF u \in resolved
            THEN [store.users[u] EXCEPT !.last_login = [at |-> t]]
            ELSE store.users[u]]]

\* The store after get_user (resolved holds the uuid of the user returned,
\* if any): objects.get(uuid=...) is its only query.
get_user_store(store, resolved, t) == store

\* The store after the steps that authentication ran.
StoreAfter(steps, resolved) ==
    LET s0 == Store
        s1 == IF \E i \in DOMAIN steps : steps[i] = "get_validated_token"
              THEN get_validated_token_store(s0) ELSE s0
    IN  IF \E i \in DOMAIN steps : steps[i] = "get_user"
        THEN get_user_store(s1, resolved, now) ELSE s1

\* The four tables become those of store s.
StoreBecomes(s) ==
    /\ users' = s.users
    /\ shelters' = s.shelters
    /\ jwt' = s.jwt
    /\ blacklist' = s.blacklist

\* objects.create_base_user(email=..., password=..., is_active=...)
CreateBaseUser(email, is_active) ==
    /\ FreshUUID(users) \in UUIDs
    /\ LET uuid == FreshUUID(users)
           r == create_base_user(users, uuid, email,
                                 PasswordHash(uuid, 0), is_active)
       IN  /\ users' = r.table
           /\ result' = [op |-> "create_base_user", ok |-> r.ok]
    /\ UNCHANGED <<shelters, jwt, blacklist>>
    /\ StoreUnchanged

\* The flags a caller can pass to create_superuser.
ExtraFields == [is_staff : BOOLEAN, is_superuser : BOOLEAN, is_active : BOOLEAN]

\* objects.create_superuser(email=..., password=..., **extra_fields)
CreateSuperuser(email, extra_fields) ==
    /\ FreshUUID(users) \in UUIDs
    /\ LET uuid == FreshUUID(users)
           r == create_superuser(users, uuid, email,
                                 PasswordHash(uuid, 0), extra_fields)
       IN  /\ users' = r.table
           /\ result' = [op |-> "create_superuser", ok |-> r.ok,
                         error |-> IF r.ok THEN None ELSE r.error]
    /\ UNCHANGED <<shelters, jwt, blacklist>>
    /\ StoreUnchanged

\* The user changes password: set_password, save.
SetPassword(u) ==
    /\ u \in DOMAIN users
    /\ users[u].password[2] < MaxPw
    /\ users' = [users EXCEPT
                   ![u].password = PasswordHash(u, users[u].password[2] + 1)]
    /\ result' = NoResult
    /\ UNCHANGED <<shelters, jwt, blacklist>>
    /\ StoreUnchanged

\* The is_active flag of a stored user is switched.
SetActive(u) ==
    /\ u \in DOMAIN users
    /\ users' = [users EXCEPT ![u].is_active = ~users[u].is_active]
    /\ result' = NoResult
    /\ UNCHANGED <<shelters, jwt, blacklist>>
    /\ StoreUnchanged

\* The encoded token of class cls issued for user u at time t
\* (Token.for_user): the revocation claim is added when the check is on.
TokenFor(cfg, cls, u, password, jti, t) ==
    [sig |-> TRUE,
     payload |-> MkPayload(
         {TOKEN_TYPE_CLAIM, "exp", JTI_CLAIM, USER_ID_CLAIM} \cup
             (IF cfg.CHECK_REVOKE_TOKEN THEN {REVOKE_TOKEN_CLAIM} ELSE {}),
         TokenTypeOf(cls), t + ACCESS_TOKEN_LIFETIME, jti, u,
         get_md5_hash_password(password))]

\* USER_AUTHENTICATION_RULE: who may obtain a token.
default_user_authentication_rule(user) == user.is_active

\* A token is issued to user u and recorded in table jwt.  iss_password
\* remembers the user's password hash at issuance.
IssueToken(u) ==
    /\ u \in DOMAIN users
    /\ default_user_authentication_rule(users[u])
    /\ Cardinality(jwt) + 1 \in JTIs
    /\ LET jti == Cardinality(jwt) + 1
           raw == TokenFor(settings, "AccessToken", u, users[u].password,
                           jti, now)
       IN  jwt' = jwt \cup {[jti |-> jti, user_uuid |-> u, token |-> raw,
                             expires_at |-> raw.payload["exp"],
                             iss_password |-> users[u].password]}
    /\ result' = NoResult
    /\ UNCHANGED <<users, shelters, blacklist>>
    /\ StoreUnchanged

\* A JWTBlacklist row is inserted for token record t.
BlacklistToken(t) ==
    /\ t \in jwt
    /\ t.jti \notin blacklist
    /\ blacklist' = blacklist \cup {t.jti}
    /\ result' = NoResult
    /\ UNCHANGED <<users, shelters, jwt>>
    /\ StoreUnchanged

\* Time passes.
StoreTick ==
    /\ now < MaxTime
    /\ now' = now + 1
    /\ result' = NoResult
    /\ UNCHANGED <<settings, users, shelters, jwt, blacklist, reqs>>

\* A request carries the raw token of record t as its bearer credential.
Authenticate(t) ==
    /\ t \in jwt
    /\ LET v == get_validated_token(settings, t.token, now)
           out == authenticate(settings, t.token, now, users)
       IN  /\ result' = [op |-> "authenticate", raw |-> t.token, out |-> out]
           /\ StoreBecomes(
                  StoreAfter(IF v.kind = "token"
                             THEN <<"get_validated_token", "get_user">>
                             ELSE <<"get_validated_token">>,
                             IF out.kind = "user" THEN {out.uuid} ELSE {}))
    /\ StoreUnchanged

\* A raw token whose signature does not verify.
ForgedToken ==
    [sig |-> FALSE,
     payload |-> MkPayload({TOKEN_TYPE_CLAIM, "exp", JTI_CLAIM, USER_ID_CLAIM},
                           "access", MaxTime + 1, 1, 1, None)]

\* The Authorization headers a request can carry: none, another scheme, a
\* bearer header with an issued or a forged token, and bearer headers with
\* no value or with two.
RequestHeaders ==
    {None}
    \cup {[scheme |-> sc, parts |-> <<raw>>] :
            sc \in {"Basic", "Bearer"},
            raw \in {t.token : t \in jwt} \cup {ForgedToken}}
    \cup {[scheme |-> "Bearer", parts |-> <<>>],
          [scheme |-> "Bearer", parts |-> <<ForgedToken, ForgedToken>>]}

\* A request with this Authorization header passes the gate.
AuthenticateRequest(header) ==
    /\ LET out == authenticate_header(settings, header, now, users)
       IN  /\ result' = [op |-> "request", header |-> header, out |-> out]
           /\ StoreBecomes(
                  StoreAfter(out.steps,
                             IF out.outcome = "authenticated"
                             THEN {out.user} ELSE {}))
    /\ StoreUnchanged

\* The validated token of an issued record.
Decoded(t) == [cls |-> "AccessToken", payload |-> t.token.payload]

\* Validated tokens with any combination of the identity and revocation
\* claims, for stored and for unknown users.
OtherValidatedTokens ==
    {[cls |-> "AccessToken",
      payload |-> MkPayload({TOKEN_TYPE_CLAIM, "exp", JTI_CLAIM} \cup cs,
                            "access", MaxTime + 1, 1, u,
                            get_md5_hash_password(PasswordHash(u, 0)))] :
        cs \in SUBSET {USER_ID_CLAIM, REVOKE_TOKEN_CLAIM}, u \in UUIDs}

\* get_user is called on validated token tok.
GetUser(tok) ==
    /\ LET out == get_user(settings, tok, users)
       IN  /\ result' = [op |-> "get_user", token |-> tok, out |-> out]
           /\ StoreBecomes(
                  StoreAfter(<<"get_user">>,
                             IF out.kind = "user" THEN {out.uuid} ELSE {}))
    /\ StoreUnchanged

Init ==
    /\ settings \in [AUTH_TOKEN_CLASSES : {RepoTokenClasses},
                     CHECK_REVOKE_TOKEN : BOOLEAN]
    /\ InitStore

\* Users, passwords, issued tokens and identity resolution.
Next ==
    \/ \E e \in Emails, a \in BOOLEAN : CreateBaseUser(e, a)
    \/ \E u \in UUIDs : SetPassword(u)
    \/ \E u \in UUIDs : SetActive(u)
    \/ \E u \in UUIDs : IssueToken(u)
    \/ \E tok \in OtherValidatedTokens \cup {Decoded(t) : t \in jwt} :
           GetUser(tok)

Spec == Init /\ [][Next]_vars

\* Issued tokens, the blacklist, expiry and the authentication of requests,
\* under the repository's settings.
\* The manager alone: accounts are created, and switched on and off.
NextManager ==
    \/ \E e \in Emails, a \in BOOLEAN : CreateBaseUser(e, a)
    \/ \E e \in Emails, x \in ExtraFields : CreateSuperuser(e, x)
    \/ \E u \in DOMAIN users : SetActive(u)
    \/ \E u \in DOMAIN users : SetPassword(u)

SpecManager == Init /\ [][NextManager]_vars

InitSession ==
    /\ settings = [AUTH_TOKEN_CLASSES |-> RepoTokenClasses,
                   CHECK_REVOKE_TOKEN |-> FALSE]
    /\ InitStore

NextSession ==
    \/ \E e \in Emails, a \in BOOLEAN : CreateBaseUser(e, a)
    \/ \E u \in UUIDs : SetActive(u)
    \/ \E u \in UUIDs : IssueToken(u)
    \/ \E t \in jwt : BlacklistToken(t)
    \/ StoreTick
    \/ \E t \in jwt : Authenticate(t)
    \/ \E header \in RequestHeaders : AuthenticateRequest(header)

SpecSession == InitSession /\ [][NextSession]_vars

(***************************************************************************)
(* Claims about identity resolution and revocation.                        *)
(***************************************************************************)
ResolvedOut == result.op = "get_user"

\* The issued-token records whose validated token get_user was called on.
ResolvedRecords == {t \in jwt : ResolvedOut /\ result.token = Decoded(t)}

IsAuthFailed(out, code) ==
    out.kind = "AuthenticationFailed" /\ out.code = code

\* The user has changed password since the account was created.
PasswordWasChanged(u) == users[u].password # PasswordHash(u, 0)

\* C3 as stated: with the revocation check on, once a user has changed
\* password every token issued to the user before the change fails get_user
\* with password_changed, and a token issued after it resolves to the user.
C3_Original ==
    settings.CHECK_REVOKE_TOKEN =>
        \A t \in ResolvedRecords :
            PasswordWasChanged(t.user_uuid) =>
                IF t.iss_password # users[t.user_uuid].password
                THEN IsAuthFailed(result.out, "password_changed")
                ELSE /\ result.out.kind = "user"
                     /\ result.out.uuid = t.user_uuid

\* C3 amended: the same, for a user who is active when the token is
\* resolved (an inactive user's tokens fail with user_inactive first).
C3_RevokedByPasswordChange ==
    settings.CHECK_REVOKE_TOKEN =>
        \A t \in ResolvedRecords :
            (/\ PasswordWasChanged(t.user_uuid)
             /\ users[t.user_uuid].is_active) =>
                IF t.iss_password # users[t.user_uuid].password
                THEN IsAuthFailed(result.out, "password_changed")
                ELSE /\ result.out.kind = "user"
                     /\ result.out.uuid = t.user_uuid

\* C3 witness: a token issued before the change has just failed with
\* password_changed while a token issued to the same user after the change
\* is on record.
C3_Witness ==
    /\ settings.CHECK_REVOKE_TOKEN
    /\ \E t \in ResolvedRecords :
         /\ t.iss_password # users[t.user_uuid].password
         /\ IsAuthFailed(result.out, "password_changed")
         /\ \E t2 \in jwt :
              /\ t2.user_uuid = t.user_uuid
              /\ t2.iss_password = users[t.user_uuid].password

\* C8: a validated token whose identity claim matches no stored user fails
\* with AuthenticationFailed(user_not_found) and returns no user.
C8_UnknownUserNotFound ==
    (/\ ResolvedOut
     /\ Has(result.token.payload, USER_ID_CLAIM)
     /\ result.token.payload[USER_ID_CLAIM] \notin DOMAIN users) =>
        IsAuthFailed(result.out, "user_not_found")

\* C8 witness: an unknown identity was looked up in a non-empty store.
C8_Witness ==
    /\ ResolvedOut
    /\ Has(result.token.payload, USER_ID_CLAIM)
    /\ result.token.payload[USER_ID_CLAIM] \notin DOMAIN users
    /\ DOMAIN users # {}
    /\ result.out.kind = "AuthenticationFailed"

\* C9: a validated token of a stored user with is_active false fails with
\* AuthenticationFailed(user_inactive), so every user get_user returns is
\* active when it is resolved.
C9_InactiveUserRejected ==
    ResolvedOut =>
        /\ (/\ Has(result.token.payload, USER_ID_CLAIM)
            /\ result.token.payload[USER_ID_CLAIM] \in DOMAIN users
            /\ ~users[result.token.payload[USER_ID_CLAIM]].is_active) =>
               IsAuthFailed(result.out, "user_inactive")
        /\ result.out.kind = "user" =>
               /\ result.out.uuid \in DOMAIN users
               /\ users[result.out.uuid].is_active

\* C9 witness: the token of a deactivated user, issued while the user was
\* stored, was rejected.
C9_Witness ==
    \E t \in ResolvedRecords :
        /\ ~users[t.user_uuid].is_active
        /\ result.out.kind = "AuthenticationFailed"

\* C10: a validated token without the user_uuid claim fails with
\* InvalidToken, not AuthenticationFailed, and no user is looked up.
C10_MissingIdentityClaim ==
    (ResolvedOut /\ ~Has(result.token.payload, USER_ID_CLAIM)) =>
        /\ result.out.kind = "InvalidToken"
        /\ result.out.detail =
               "Token contained no recognizable user identification"
        /\ result.out.lookups = 0

\* C10 witness: such a token was resolved while users were stored.
C10_Witness ==
    /\ ResolvedOut
    /\ ~Has(result.token.payload, USER_ID_CLAIM)
    /\ DOMAIN users # {}
    /\ result.out.kind = "InvalidToken"

(***************************************************************************)
(* Claims about the blacklist.                                             *)
(***************************************************************************)
\* The issued-token records whose raw token was just authenticated.
AuthenticatedRecords ==
    {t \in jwt : result.op = "authenticate" /\ result.raw = t.token}

\* C4: once a JWTBlacklist row exists for a token record, authentication of
\* that raw token is rejected, and not as an expired token; the other
\* unexpired, non-blacklisted tokens of an active user authenticate.
C4_BlacklistedTokenRejected ==
    \A t \in AuthenticatedRecords :
        IF t.jti \in blacklist
        THEN result.out.kind # "user"
        ELSE (t.expires_at > now /\ users[t.user_uuid].is_active) =>
                 result.out.kind = "user"

(***************************************************************************)
(* Shelter registration (ShelterAPIView.post).                             *)
(***************************************************************************)
ShelterNames == {"n1", "n2"}

\* request.data: `ok` tells whether the fields have the required shape.
Bodies == [email : Emails, shelter_name : ShelterNames, ok : BOOLEAN]

\* unique=True on Shelter.shelter_name
NameTaken(table, name) ==
    \E u \in DOMAIN table : table[u].shelter_name = name

\* ShelterSerializer.is_valid(): the errors per field; valid when empty.
\* The email must not be in use.
serializer_errors(data, table) ==
    [f \in (IF data.ok THEN {} ELSE {"password"}) \cup
           (IF EmailTaken(table, data.email) THEN {"email"} ELSE {}) |->
        IF f = "email" THEN <<"email_in_use">> ELSE <<"invalid">>]

\* UserUsesCases.register_user with role SHELTER, in one transaction: the
\* base identity, then the Shelter profile.  A uniqueness violation of the
\* store rolls both back and is raised to the caller.
register_user(utable, stable, uuid, data) ==
    LET b == create_base_user(utable, uuid, data.email,
                              PasswordHash(uuid, 0), TRUE)
    IN  IF ~b.ok
        THEN [ok |-> FALSE, users |-> utable, shelters |-> stable,
              exc |-> [type |-> b.error, field |-> b.field]]
        ELSE IF NameTaken(stable, data.shelter_name)
        THEN [ok |-> FALSE, users |-> utable, shelters |-> stable,
              exc |-> [type |-> "IntegrityError", field |-> "shelter_name"]]
        ELSE [ok |-> TRUE, users |-> b.table,
              shelters |-> Put(stable, uuid,
                               [shelter_name |-> data.shelter_name])]

\* ShelterAPIView._handle_invalid_request
handle_invalid_request(errors) ==
    [status |-> 400,
     data |-> [code |-> "invalid_request_data", detail |-> errors]]

\* EXCEPTION_HANDLER (apps.exceptions.services_exception_handler): a
\* uniqueness violation of the store is answered as a field-scoped
\* validation error.
services_exception_handler(exc) ==
    [status |-> 400,
     data |-> [code |-> "invalid_request_data",
               detail |-> [f \in {exc.field} |->
                              IF f = "email" THEN <<"email_in_use">>
                              ELSE <<"name_in_use">>]]]

\* A handler that answers 201 whatever the use case did.
handle_valid_request_always201(out) == [status |-> 201, data |-> None]

\* ShelterAPIView._handle_valid_request: 201 with no body once the use case
\* has returned; an exception it raises goes to the exception handler.
handle_valid_request(out) ==
    IF out.ok THEN [status |-> 201, data |-> None]
    ELSE services_exception_handler(out.exc)

\* UserRoles.SHELTER.value, the role _handle_valid_request passes.
SHELTER == "shelter"

authentication_mapping == [m \in {"POST"} |-> <<>>]

permission_mapping == [m \in {"POST"} |-> <<>>]

DEFAULT_AUTHENTICATION_CLASSES == <<"JWTAuthentication">>

\* A view that keeps the authenticators of the settings.
get_authenticators_default(has_request, method) ==
    DEFAULT_AUTHENTICATION_CLASSES

\* ShelterAPIView.get_authenticators: the list mapped to the method, or the
\* empty list when self.request is not set yet (AttributeError).
get_authenticators(has_request, method) ==
    IF ~has_request THEN <<>> ELSE authentication_mapping[method]

\* ShelterAPIView.get_permissions
get_permissions(method) == permission_mapping[method]

\* The authenticators are tried in order on the request's header: the
\* first that raises ends the request, the first that returns a user
\* authenticates it, and with none the request is anonymous.
RECURSIVE perform_authentication(_, _, _, _, _, _)
perform_authentication(authenticators, i, cfg, header, t, table) ==
    IF i > Len(authenticators) THEN Anonymous(<<>>)
    ELSE LET out == authenticate_header(cfg, header, t, table)
         IN  IF out.outcome = "anonymous"
             THEN perform_authentication(authenticators, i + 1, cfg, header,
                                         t, table)
             ELSE out

\* What precedes post(): authentication with the view's authenticators,
\* then its permissions (there are none to refuse).  An authentication
\* error is answered 401.
initial(cfg, has_request, method, header, t, table) ==
    LET auth == perform_authentication(
                    get_authenticators(has_request, method), 1, cfg, header,
                    t, table)
    IN  IF auth.outcome = "error"
        THEN [ok |-> FALSE,
              response |-> [status |-> 401, data |-> auth.error]]
        ELSE IF get_permissions(method) # <<>>
        THEN [ok |-> FALSE,
              response |-> [status |-> 403,
                            data |-> permission_denied(
                                get_authenticators(has_request, method),
                                IF auth.outcome = "authenticated"
                                THEN "JWTAuthentication" ELSE None)]]
        ELSE [ok |-> TRUE]

\* post(), up to serializer.is_valid(), for a request that came through
\* initial(): what becomes of the request.
post(body, table) ==
    LET errors == serializer_errors(body, table)
    IN  IF DOMAIN errors = {}
        THEN [pc |-> "valid", body |-> body]
        ELSE [pc |-> "done", body |-> body, passed |-> FALSE, calls |-> <<>>,
              response |-> handle_invalid_request(errors)]

\* dispatch(): initial(), then post().
dispatch(cfg, has_request, header, body, t, table) ==
    LET gate == initial(cfg, has_request, "POST", header, t, table)
    IN  IF ~gate.ok
        THEN [pc |-> "done", body |-> body, passed |-> FALSE, calls |-> <<>>,
              response |-> gate.response]
        ELSE post(body, table)

RegUnchanged == UNCHANGED <<settings, now, jwt, blacklist>>

\* A token of user 1 that has not expired, and one that has.
HeaderTokens ==
    {[sig |-> TRUE,
      payload |-> MkPayload({TOKEN_TYPE_CLAIM, "exp", JTI_CLAIM, USER_ID_CLAIM},
                            "access", exp, 1, 1, None)] : exp \in {0, MaxTime + 1}}

\* The Authorization headers of a registration request: absent, a bearer
\* token that is good, expired or forged, and a bearer header with no value.
PostHeaders ==
    {None, [scheme |-> "Bearer", parts |-> <<>>],
     [scheme |-> "Bearer", parts |-> <<ForgedToken>>]}
    \cup {[scheme |-> "Bearer", parts |-> <<raw>>] : raw \in HeaderTokens}

\* A POST arrives and runs up to serializer.is_valid(): a request refused
\* by initial() or with an invalid body is answered at once.
RegisterValidate(r, header, body) ==
    /\ reqs[r].pc = "idle"
    /\ \E has_request \in BOOLEAN :
         reqs' = [reqs EXCEPT ![r] =
                     dispatch(settings, has_request, header, body, now, users)]
    /\ result' = [op |-> "post", request |-> r, header |-> header]
    /\ UNCHANGED <<users, shelters>>
    /\ RegUnchanged

\* post(), from _handle_valid_request on: the use case is called with the
\* validated data and the role, and commits or raises.
RegisterCreate(r) ==
    /\ reqs[r].pc = "valid"
    /\ LET out == register_user(users, shelters, FreshUUID(users),
                                reqs[r].body)
       IN  /\ users' = out.users
           /\ shelters' = out.shelters
           /\ reqs' = [reqs EXCEPT ![r] =
                  [pc |-> "done", body |-> reqs[r].body, passed |-> TRUE,
                   calls |-> <<SHELTER>>,
                   response |-> handle_valid_request(out)]]
    /\ result' = NoResult
    /\ RegUnchanged

InitReg ==
    /\ settings = [AUTH_TOKEN_CLASSES |-> RepoTokenClasses,
                   CHECK_REVOKE_TOKEN |-> FALSE]
    /\ InitStore

NextReg ==
    \/ \E r \in Reqs, h \in PostHeaders, body \in Bodies :
         RegisterValidate(r, h, body)
    \/ \E r \in Reqs : RegisterCreate(r)

SpecReg == InitReg /\ [][NextReg]_vars

\* Registration while accounts are switched on and off.
NextPost ==
    \/ NextReg
    \/ \E u \in DOMAIN users : SetActive(u)

SpecPost == InitReg /\ [][NextPost]_vars

(***************************************************************************)
(* Claims about registration.                                              *)
(***************************************************************************)
Done(r) == reqs[r].pc = "done"

Created(r) == Done(r) /\ reqs[r].response.status = 201

\* A 400 invalid_request_data response with the email-in-use field error.
EmailInUseResponse(r) ==
    /\ Done(r)
    /\ reqs[r].response.status = 400
    /\ reqs[r].response.data.code = "invalid_request_data"
    /\ "email" \in DOMAIN reqs[r].response.data.detail
    /\ reqs[r].response.data.detail["email"] = <<"email_in_use">>

\* The requests received so far whose email is stored as e.
SameEmail(e) ==
    {r \in Reqs : reqs[r].pc # "idle"
                  /\ normalize_email(reqs[r].body.email) = e}

\* The requests of S differ from an acceptable registration by the email
\* only: well-formed bodies, and shelter names no request outside S carries.
Unhindered(S) ==
    /\ \A r \in S : reqs[r].body.ok
    /\ \A r \in S, q \in Reqs \ S :
         reqs[q].pc # "idle" =>
             reqs[q].body.shelter_name # reqs[r].body.shelter_name

GateOut == result.op = "request"

\* The request carries a bearer credential: a Bearer header with one value.
HasBearer(header) ==
    /\ header # None
    /\ header.scheme = "Bearer"
    /\ Len(header.parts) = 1

\* The request carries no bearer header at all.
NoBearer(header) == header = None \/ header.scheme # "Bearer"

ClaimMissing(tok) == ~Has(tok.payload, USER_ID_CLAIM)

UserMissing(tok) ==
    /\ ~ClaimMissing(tok)
    /\ tok.payload[USER_ID_CLAIM] \notin DOMAIN users

UserFound(tok) ==
    /\ ~ClaimMissing(tok)
    /\ tok.payload[USER_ID_CLAIM] \in DOMAIN users

UserInactive(tok) ==
    /\ UserFound(tok)
    /\ ~users[tok.payload[USER_ID_CLAIM]].is_active

FingerprintMismatch(tok) ==
    /\ UserFound(tok)
    /\ settings.CHECK_REVOKE_TOKEN
    /\ Get(tok.payload, REVOKE_TOKEN_CLAIM) #
           get_md5_hash_password(users[tok.payload[USER_ID_CLAIM]].password)

\* C16: get_user reports the first failing check in the order missing
\* claim, user not found, user inactive, fingerprint mismatch; an inactive
\* user whose password also changed fails with user_inactive; the user is
\* returned only when no check fails.
C16_FirstFailureReported ==
    ResolvedOut =>
        LET tok == result.token
            out == result.out
        IN  /\ ClaimMissing(tok) => out = NoIdentity
            /\ UserMissing(tok) => IsAuthFailed(out, "user_not_found")
            /\ UserInactive(tok) => IsAuthFailed(out, "user_inactive")
            /\ (FingerprintMismatch(tok) /\ ~UserInactive(tok)) =>
                   IsAuthFailed(out, "password_changed")
            /\ out.kind = "user" <=>
                   (/\ UserFound(tok)
                    /\ ~UserInactive(tok)
                    /\ ~FingerprintMismatch(tok))
            /\ out.kind = "user" =>
                   /\ out.uuid = tok.payload[USER_ID_CLAIM]
                   /\ out.user = users[out.uuid]

\* C16 witness: an inactive user whose password also changed, resolved
\* with the old token.
C16_Witness ==
    /\ ResolvedOut
    /\ UserInactive(result.token)
    /\ FingerprintMismatch(result.token)
    /\ PasswordWasChanged(result.token.payload[USER_ID_CLAIM])
    /\ IsAuthFailed(result.out, "user_inactive")

\* What the caller of get_user can tell: the error, or whose identity.
Outcome(out) ==
    IF out.kind = "user" THEN [kind |-> "user", uuid |-> out.uuid]
    ELSE out

\* The token with its revocation claim dropped or replaced.
RevocationVariants(tok) ==
    {[tok EXCEPT !.payload =
          [k \in DOMAIN tok.payload \ {REVOKE_TOKEN_CLAIM} |-> tok.payload[k]]]}
    \cup {[tok EXCEPT !.payload =
               [k \in DOMAIN tok.payload \cup {REVOKE_TOKEN_CLAIM} |->
                    IF k = REVOKE_TOKEN_CLAIM
                    THEN get_md5_hash_password(PasswordHash(u, n))
                    ELSE tok.payload[k]]] :
            u \in UUIDs, n \in 0..MaxPw}

\* The store with the current password hash of one user replaced.
PasswordVariants ==
    {users}
    \cup {[users EXCEPT ![u].password = PasswordHash(u, n)] :
            u \in DOMAIN users, n \in 0..MaxPw}

\* C17: with CHECK_REVOKE_TOKEN off, what get_user returns is the same
\* whatever the token's revocation claim and the user's current password
\* hash are, and a token issued before a password change still resolves to
\* the active user.
C17_RevocationIgnoredWhenOff ==
    (ResolvedOut /\ ~settings.CHECK_REVOKE_TOKEN) =>
        /\ \A tok \in RevocationVariants(result.token) :
             \A table \in PasswordVariants :
               Outcome(get_user(settings, tok, table)) = Outcome(result.out)
        /\ \A t \in ResolvedRecords :
             (/\ t.user_uuid \in DOMAIN users
              /\ users[t.user_uuid].is_active
              /\ t.iss_password # users[t.user_uuid].password) =>
                 Outcome(result.out) = [kind |-> "user", uuid |-> t.user_uuid]

\* C17 witness: with the check off, a token issued before a password
\* change was resolved to the active user.
C17_Witness ==
    /\ ResolvedOut
    /\ ~settings.CHECK_REVOKE_TOKEN
    /\ \E t \in ResolvedRecords :
         /\ users[t.user_uuid].is_active
         /\ t.iss_password # users[t.user_uuid].password
         /\ result.out.kind = "user"
         /\ result.out.uuid = t.user_uuid

(***************************************************************************)
(* Claims about the stored emails.                                         *)
(***************************************************************************)
\* The two addresses are equal up to letter case.
SameUpToCase(e1, e2) ==
    /\ Lower(e1.local) = Lower(e2.local)
    /\ Lower(e1.domain) = Lower(e2.domain)

\* C14: after any sequence of create_base_user and create_superuser calls
\* no two stored emails are equal up to letter case.
C14_EmailsUniqueUpToCase ==
    \A u1, u2 \in DOMAIN users :
        SameUpToCase(users[u1].email, users[u2].email) => u1 = u2

(***************************************************************************)
(* Claims about what authentication writes.                                *)
(***************************************************************************)
\* The step just taken ran get_validated_token, get_user, or both.
AuthenticationRan ==
    result'.op \in {"authenticate", "request", "get_user"}

\* C15: get_validated_token and get_user leave every identity, profile,
\* token and blacklist record as it was, last_login and is_active
\* included, whether they succeed or fail.
C15_AuthenticationReadOnly ==
    [][AuthenticationRan => UNCHANGED <<users, shelters, jwt, blacklist>>]_vars

\* C15 witness: a token was validated and resolved to its user while
\* token and blacklist records were stored.
C15_Witness ==
    /\ result.op = "authenticate"
    /\ result.out.kind = "user"
    /\ users[result.out.uuid].last_login = None
    /\ jwt # {}
    /\ blacklist # {}

(***************************************************************************)
(* Claims about the registration endpoint.                                 *)
(***************************************************************************)
\* Request r goes from pc `from` to pc `to` in this step.
Moves(r, from, to) == reqs[r].pc = from /\ reqs'[r].pc = to

\* The response is the 400 of _handle_invalid_request for these errors.
InvalidRequestData(response, errors) ==
    /\ response.status = 400
    /\ response.data.code = "invalid_request_data"
    /\ response.data.detail = errors

\* A request answered without the use case having been called.
AnsweredInvalid(r) ==
    /\ ~reqs'[r].passed
    /\ DOMAIN serializer_errors(reqs'[r].body, users) # {}
    /\ reqs'[r].calls = <<>>
    /\ UNCHANGED <<users, shelters>>
    /\ InvalidRequestData(reqs'[r].response,
                          serializer_errors(reqs'[r].body, users))

\* A body passes validation exactly when the serializer has no errors.
PassesValidation(r) ==
    /\ DOMAIN serializer_errors(reqs'[r].body, users) = {}
    /\ UNCHANGED <<users, shelters>>

C13_HeaderIrrelevant ==
    [][\A r \in Reqs :
          (reqs[r].pc = "idle" /\ reqs'[r].pc # "idle") =>
              /\ \A has_request \in BOOLEAN :
                   get_authenticators(has_request, "POST") = <<>>
              /\ get_permissions("POST") = <<>>
              /\ \A h \in PostHeaders, has_request \in BOOLEAN :
                   dispatch(settings, has_request, h, reqs'[r].body, now,
                            users) = reqs'[r]
              /\ UNCHANGED <<users, shelters, jwt, blacklist>>]_vars

\* C13 witness: a request carrying the token of a stored, inactive user
\* passed validation.
C13_Witness ==
    /\ result.op = "post"
    /\ reqs[result.request].pc = "valid"
    /\ HasBearer(result.header)
    /\ result.header.parts[1].sig
    /\ result.header.parts[1].payload["exp"] > now
    /\ result.header.parts[1].payload[USER_ID_CLAIM] \in DOMAIN users
    /\ ~users[result.header.parts[1].payload[USER_ID_CLAIM]].is_active

====
